---- MODULE Spec2Model ----
(***************************************************************************)
(* kosi: control runtime of a network-connected thermostat (ESP8266).      *)
(* The model follows the firmware sketch: the persisted configuration and  *)
(* its byte-wise serialization, the clock gate, the two-phase sensor       *)
(* conversion, the OFFLINE/ONLINE mode machine and the connect attempt.    *)
(*                                                                         *)
(* Conventions.  Times are the 32-bit unsigned readings of micros().       *)
(* Characters are byte values 0..255.  Float values (temperatures and the  *)
(* setpoint) are decimals with one fractional digit, written in tenths     *)
(* (18.5 is Flt(185)).  Pins carry the level written with digitalWrite.    *)
(***************************************************************************)
EXTENDS Integers, Sequences, FiniteSets, TLC

VARIABLES
    pc,                    \* "boot" | "loop" (between ticks) | "sta" (inside init_sta's wait) | "probe"
    caller,                \* who called to_online while pc = "sta": "setup" | "retry" | "none"
    micros,                \* last reading of micros()
    mode,                  \* _mode
    storage,               \* _storage
    eeprom,                \* committed contents of the EEPROM sector, address -> byte
    last_wifi_scan,        \* _last_wifi_scan
    last_checked_temp,     \* _last_checked_temp
    last_changed_blink,    \* _last_changed_blink
    latest_user_action,    \* _latest_user_action
    last_started_temp_req, \* _last_started_temp_req
    started_temp_req,      \* _started_temp_req
    blink_state,           \* _blink_state
    pin_led,               \* level of PIN_LED
    pin_relay,             \* level of PIN_RELAY
    ap_up,                 \* soft access point requested (softAP) and not torn down
    server_up,             \* configuration server begun and not closed
    sta_status,            \* local `status` of init_sta (WL_IDLE_STATUS outside init_sta)
    yields,                \* parity of the number of yield_delay() calls of the running init_sta
    requests,              \* number of requests the configuration server has handled
    scan_running,          \* number of asynchronous scans in flight (scanComplete() = WIFI_SCAN_RUNNING when > 0)
    num_found_networks,    \* _num_found_networks
    ticks,                 \* number of loop() calls so far (bounded by MaxTicks)
    ev,                    \* observation: what the handler that ran last did
    hist,                  \* observation: the last connect attempt, the retry gate since, the last poll
    probe                  \* inputs and result of a function applied on its own (SpecGate, SpecStore)

vars == << pc, caller, micros, mode, storage, eeprom, last_wifi_scan, last_checked_temp,
           last_changed_blink, latest_user_action, last_started_temp_req, started_temp_req,
           blink_state, pin_led, pin_relay, ap_up, server_up, sta_status, yields,
           scan_running, num_found_networks, requests, ticks, ev, hist, probe >>

----------------------------------------------------------------------------
(* Program constants                                                       *)

ACTIVE   == "LOW"
INACTIVE == "HIGH"

MAGIC_SIZE == 4
MAGIC == << 75, 66, 76, 68 >>                 \* 'K', 'B', 'L', 'D'
VERSION == 1
SSID_MAX == 32
PASSPHRASE_MAX == 64
REPORT_URL_MAX == 32
EEPROM_OFFSET == 15
EEPROM_SIZE == 512
DEFAULT_SETPOINT_TENTHS == 180                \* 18.0, in tenths
YIELD_DELAY_MS == 20
MAX_NETWORKS == 64
FORCE_OFFLINE == FALSE
\* "http://kosi:3000/"
REPORT_URL_DEFAULT == << 104, 116, 116, 112, 58, 47, 47, 107, 111, 115, 105, 58, 51, 48, 48, 48, 47 >>

\* periods in microseconds
PERIOD_WIFI_SCAN_US    == 30000000
PERIOD_BLINK_OFF_US    == 950000
PERIOD_BLINK_ON_US     == 50000
PERIOD_CHECK_TEMP_US   == 30000000
PERIOD_RETRY_ONLINE_US == 60000000
\* _conversion_period: millisToWaitForConversion(12 bits) = 750 ms, times 1000
CONVERSION_PERIOD_US   == 750000

\* unsigned long is 32 bits wide on the ESP8266.  A 32-bit value is held as the
\* pair << high half, low half >> of its two 16-bit halves, most significant first.
ULONG_BITS == 32
HALF == 2 ^ (ULONG_BITS \div 2)
\* the 32-bit value of a number 0 <= n < 2^31
u32(n) == << (n \div HALF) % HALF, n % HALF >>
U32Zero == << 0, 0 >>
\* a + b and a - b in unsigned 32-bit arithmetic (modulo 2^32)
U32Add(a, b) == LET lo == a[2] + b[2]
                    hi == a[1] + b[1] + (lo \div HALF)
                IN  << hi % HALF, lo % HALF >>
U32Sub(a, b) == LET lo == a[2] - b[2]
                    hi == a[1] - b[1] - (IF lo < 0 THEN 1 ELSE 0)
                IN  << hi % HALF, lo % HALF >>
U32Ge(a, b) == a[1] > b[1] \/ (a[1] = b[1] /\ a[2] >= b[2])
U32Gt(a, b) == a[1] > b[1] \/ (a[1] = b[1] /\ a[2] > b[2])

\* the periods as unsigned long values
PERIOD_WIFI_SCAN    == u32(PERIOD_WIFI_SCAN_US)
PERIOD_BLINK_OFF    == u32(PERIOD_BLINK_OFF_US)
PERIOD_BLINK_ON     == u32(PERIOD_BLINK_ON_US)
PERIOD_CHECK_TEMP   == u32(PERIOD_CHECK_TEMP_US)
PERIOD_RETRY_ONLINE == u32(PERIOD_RETRY_ONLINE_US)
CONVERSION_PERIOD   == u32(CONVERSION_PERIOD_US)

\* wl_status_t, as listed by wifi_status
WL_IDLE_STATUS     == 0
WL_NO_SSID_AVAIL   == 1
WL_SCAN_COMPLETED  == 2
WL_CONNECTED       == 3
WL_CONNECT_FAILED  == 4
WL_CONNECTION_LOST == 5
WL_DISCONNECTED    == 6
WL_NO_SHIELD       == 255
WlStatuses == { WL_IDLE_STATUS, WL_NO_SSID_AVAIL, WL_SCAN_COMPLETED, WL_CONNECTED,
                WL_CONNECT_FAILED, WL_CONNECTION_LOST, WL_DISCONNECTED, WL_NO_SHIELD }

----------------------------------------------------------------------------
(* Clock gate                                                              *)

\* Arduino's abs macro, ((x)>0?(x):-(x)), on an unsigned long operand
abs_ulong(x) == IF U32Gt(x, U32Zero) THEN x ELSE U32Sub(U32Zero, x)

\* abs taken on the operand reinterpreted as a signed long
abs_signed(x) == IF x[1] >= HALF \div 2 THEN U32Sub(U32Zero, x) ELSE x

period_elapsed_signed(last_occurrence, now, period) ==
    U32Ge(abs_signed(U32Sub(now, last_occurrence)), period)

period_elapsed(last_occurrence, now, period) ==
    U32Ge(abs_ulong(U32Sub(now, last_occurrence)), period)

----------------------------------------------------------------------------
(* Float values                                                            *)

\* A float is [neg, whole, tenth]: sign, whole part (a 32-bit pair whose high half
\* may reach HALF, for 2^32 itself) and one fractional decimal digit.
Flt(tenths) == IF tenths < 0
               THEN [neg |-> TRUE,  whole |-> u32((0 - tenths) \div 10), tenth |-> (0 - tenths) % 10]
               ELSE [neg |-> FALSE, whole |-> u32(tenths \div 10),       tenth |-> tenths % 10]
DEFAULT_SETPOINT == Flt(DEFAULT_SETPOINT_TENTHS)
FltZero == Flt(0)
FltMagLess(a, b) == \/ U32Gt(b.whole, a.whole)
                    \/ (a.whole = b.whole /\ a.tenth < b.tenth)
FltIsZero(a) == a.whole = U32Zero /\ a.tenth = 0
\* a < b on floats
FltLess(a, b) ==
    IF FltIsZero(a) /\ FltIsZero(b) THEN FALSE
    ELSE IF a.neg /\ ~b.neg THEN TRUE
    ELSE IF ~a.neg /\ b.neg THEN FALSE
    ELSE IF a.neg THEN FltMagLess(b, a)
    ELSE FltMagLess(a, b)

\* number of mantissa bits of a float (IEEE-754 single precision)
FLT_MANT_DIG == 24
\* static_cast<float>(uint32_t): exact below 2^24, else rounded to 24 significant
\* bits, ties to even
FloatOfU32(x) ==
    IF x[1] < 2 ^ (FLT_MANT_DIG - 16)
    THEN [neg |-> FALSE, whole |-> x, tenth |-> 0]
    ELSE LET k    == CHOOSE j \in 1 .. 8 : x[1] >= 2 ^ (7 + j) /\ x[1] < 2 ^ (8 + j)
             q    == 2 ^ k
             r    == x[2] % q
             base == x[2] - r
             up   == (2 * r > q) \/ (2 * r = q /\ (x[2] \div q) % 2 = 1)
             w    == IF ~up THEN << x[1], base >>
                     ELSE IF base + q = HALF THEN << x[1] + 1, 0 >>
                     ELSE << x[1], base + q >>
         IN  [neg |-> FALSE, whole |-> w, tenth |-> 0]

\* static_cast<uint32_t>(float) truncates toward zero; it is defined for values in
\* (-1, 2^32) only, and every float the model casts is in that range (CastDefined).
CastDefined(f) == (f.neg => f.whole = U32Zero) /\ f.whole[1] < HALF
U32OfFloat(f) == f.whole

----------------------------------------------------------------------------
(* Persistent configuration store                                          *)

Bytes == 0 .. 255
Zeros(n) == [i \in 1 .. n |-> 0]
\* the characters of a C string held in a char array: up to the first NUL
RECURSIVE CStrFrom(_, _)
CStrFrom(buf, i) == IF i > Len(buf) \/ buf[i] = 0 THEN << >>
                    ELSE << buf[i] >> \o CStrFrom(buf, i + 1)
CStr(buf) == CStrFrom(buf, 1)
HasNul(buf) == \E i \in 1 .. Len(buf) : buf[i] = 0

\* struct Storage; the globals are zero-initialised
ZeroStorage == [ magic      |-> Zeros(MAGIC_SIZE),
                 version    |-> 0,
                 ssid       |-> Zeros(SSID_MAX),
                 passphrase |-> Zeros(PASSPHRASE_MAX),
                 report_url |-> Zeros(REPORT_URL_MAX),
                 setpoint   |-> FltZero ]

\* The EEPROM is the sequence of its EEPROM_SIZE bytes: address a is element a + 1.
\* EEPROM.write(address, value) and EEPROM.read(address) of the ESP8266 core: a
\* write outside [0, size) is ignored, a read outside it yields 0
EepromWrite(ee, address, value) ==
    IF address >= 0 /\ address < EEPROM_SIZE THEN [ee EXCEPT ![address + 1] = value % 256] ELSE ee
EepromRead(ee, address) ==
    IF address >= 0 /\ address < EEPROM_SIZE THEN ee[address + 1] ELSE 0

\* serialize_char with write = true, for the chars of one array in turn: char i
\* goes to address + i - 1.  The arrays lie inside the EEPROM (ADDR_END <= size).
write_chars(ee, address, chars) ==
    SubSeq(ee, 1, address) \o chars \o SubSeq(ee, address + Len(chars) + 1, Len(ee))
\* serialize_char with write = false, for n chars in turn
read_chars(ee, address, n) == SubSeq(ee, address + 1, address + n)

\* serialize_uint8_t, write = true: EEPROM.write(val, address) stores the byte
\* `address` at the address `val`
serialize_uint8_t_write(ee, val, address) == EepromWrite(ee, val, address)
serialize_uint8_t_read(ee, address) == EepromRead(ee, address)

\* serialize_float, write = true: the four bytes of static_cast<uint32_t>(val)
serialize_float_write(ee, val, address) ==
    LET u == U32OfFloat(val)
        b == << u[2] % 256, u[2] \div 256, u[1] % 256, u[1] \div 256 >>
    IN  write_chars(ee, address, b)
\* serialize_float, write = false
serialize_float_read(ee, address) ==
    LET b == read_chars(ee, address, 4)
    IN  FloatOfU32(<< b[4] * 256 + b[3], b[2] * 256 + b[1] >>)

\* addresses of the fields, as `address` advances through serialize_storage
ADDR_MAGIC      == EEPROM_OFFSET
ADDR_VERSION    == ADDR_MAGIC + MAGIC_SIZE
ADDR_SSID       == ADDR_VERSION + 1
ADDR_PASSPHRASE == ADDR_SSID + SSID_MAX
ADDR_REPORT_URL == ADDR_PASSPHRASE + PASSPHRASE_MAX
ADDR_SETPOINT   == ADDR_REPORT_URL + REPORT_URL_MAX
ADDR_END        == ADDR_SETPOINT + 4

\* serialize_storage(storage, true): the EEPROM contents after EEPROM.end()
serialize_storage_write(st, ee) ==
    LET e1 == write_chars(ee, ADDR_MAGIC, st.magic)
        e2 == serialize_uint8_t_write(e1, st.version, ADDR_VERSION)
        e3 == write_chars(e2, ADDR_SSID, st.ssid)
        e4 == write_chars(e3, ADDR_PASSPHRASE, st.passphrase)
        e5 == write_chars(e4, ADDR_REPORT_URL, st.report_url)
    IN  serialize_float_write(e5, st.setpoint, ADDR_SETPOINT)

\* the bytes of the record in the order serialize_storage goes through them,
\* the setpoint in the four bytes serialize_float makes of it
record_image(st) ==
    st.magic \o << st.version >> \o st.ssid \o st.passphrase \o st.report_url
      \o read_chars(serialize_float_write(Zeros(EEPROM_SIZE), st.setpoint, ADDR_SETPOINT),
                    ADDR_SETPOINT, 4)

\* serialize_storage(storage, false): the record read
serialize_storage_read(ee) ==
    [ magic      |-> read_chars(ee, ADDR_MAGIC, MAGIC_SIZE),
      version    |-> serialize_uint8_t_read(ee, ADDR_VERSION),
      ssid       |-> read_chars(ee, ADDR_SSID, SSID_MAX),
      passphrase |-> read_chars(ee, ADDR_PASSPHRASE, PASSPHRASE_MAX),
      report_url |-> read_chars(ee, ADDR_REPORT_URL, REPORT_URL_MAX),
      setpoint   |-> serialize_float_read(ee, ADDR_SETPOINT) ]

\* magic_match compared on the first three bytes only
magic_match_short(st) == \A i \in 1 .. MAGIC_SIZE - 1 : st.magic[i] = MAGIC[i]
magic_match(st) == \A i \in 1 .. MAGIC_SIZE : st.magic[i] = MAGIC[i]

internet_settings_exist(st) == st.ssid[1] # 0

\* bytes between the end of report_url and setpoint in struct Storage (the float
\* is aligned to 4 bytes: 4 + 1 + 32 + 64 + 32 = 133, setpoint at offset 136)
STORAGE_PADDING == 3

\* strcpy(dst, src), the contents of the array dst afterwards: the characters of
\* src and the terminating NUL are written from dst[0] on, whatever the capacity
\* of dst.  With a source that fits, the rest of dst is untouched.  With a longer
\* one the array is filled and the remaining bytes, the NUL among them, land
\* behind it: for report_url in the padding before setpoint, as long as no more
\* than STORAGE_PADDING bytes spill.
strcpy(dst, src) ==
    IF Len(src) < Len(dst)
    THEN src \o << 0 >> \o SubSeq(dst, Len(src) + 2, Len(dst))
    ELSE SubSeq(src, 1, Len(dst))

\* String::toCharArray(buf, bufsize): at most bufsize - 1 characters, then a NUL
toCharArray(src, buf, bufsize) ==
    LET n == IF Len(src) < bufsize - 1 THEN Len(src) ELSE bufsize - 1
    IN  SubSeq(src, 1, n) \o << 0 >> \o SubSeq(buf, n + 2, Len(buf))

\* first_time_storage, the record it leaves in memory
first_time_record(st) ==
    [ magic      |-> MAGIC,
      version    |-> VERSION,
      ssid       |-> Zeros(SSID_MAX),
      passphrase |-> Zeros(PASSPHRASE_MAX),
      report_url |-> strcpy(st.report_url, REPORT_URL_DEFAULT),
      setpoint   |-> DEFAULT_SETPOINT ]

----------------------------------------------------------------------------
(* Program state as one record, so that the functions compose               *)

G == [ mode |-> mode, storage |-> storage, eeprom |-> eeprom,
       last_wifi_scan |-> last_wifi_scan, last_checked_temp |-> last_checked_temp,
       last_changed_blink |-> last_changed_blink, latest_user_action |-> latest_user_action,
       last_started_temp_req |-> last_started_temp_req, started_temp_req |-> started_temp_req,
       blink_state |-> blink_state, pin_led |-> pin_led, pin_relay |-> pin_relay,
       ap_up |-> ap_up, server_up |-> server_up, scan_running |-> scan_running,
       num_found_networks |-> num_found_networks, ev |-> ev, hist |-> hist ]

Commit(g) ==
    /\ mode' = g.mode
    /\ storage' = g.storage
    /\ eeprom' = g.eeprom
    /\ last_wifi_scan' = g.last_wifi_scan
    /\ last_checked_temp' = g.last_checked_temp
    /\ last_changed_blink' = g.last_changed_blink
    /\ latest_user_action' = g.latest_user_action
    /\ last_started_temp_req' = g.last_started_temp_req
    /\ started_temp_req' = g.started_temp_req
    /\ blink_state' = g.blink_state
    /\ pin_led' = g.pin_led
    /\ pin_relay' = g.pin_relay
    /\ ap_up' = g.ap_up
    /\ server_up' = g.server_up
    /\ scan_running' = g.scan_running
    /\ num_found_networks' = g.num_found_networks
    /\ ev' = g.ev
    /\ hist' = g.hist

\* the observation record at the start of a handler: nothing done yet
NoPoll == [ called |-> FALSE, was_started |-> FALSE, elapsed |-> FALSE,
            asked |-> FALSE, complete |-> FALSE, requested |-> FALSE, valid |-> FALSE,
            temp |-> FltZero, after_miss |-> FALSE ]
NoEv(op) ==
    [ op |-> op, now |-> U32Zero, poll |-> NoPoll, reported |-> FALSE, code |-> 0,
      relay_writes |-> 0, relay_by |-> "none", ap_starts |-> 0, server_starts |-> 0,
      attempts |-> 0, retry_due |-> FALSE, after_attempt |-> FALSE, retry_ok |-> TRUE,
      sta_result |-> "none",
      scan_due |-> FALSE, scan_busy |-> 0, scan_started |-> FALSE, saves |-> 0, defaults |-> FALSE,
      loaded_magic |-> << >>, polls |-> 0, reports |-> 0, poll_early |-> FALSE ]

\* observation at the start of a handler
Begin(g, op) == [g EXCEPT !.ev = NoEv(op)]
\* observation of the handler's reading `now` of micros(): has the clock gate
\* reported PERIOD_RETRY_ONLINE elapsed since the last connect attempt
Clock(g, now) ==
    [g EXCEPT !.ev.now = now,
              !.hist.gate_seen = @ \/ (g.hist.attempted
                                       /\ period_elapsed(g.hist.t, now, PERIOD_RETRY_ONLINE))]

----------------------------------------------------------------------------
(* Timers, actuators, mode transitions                                      *)

\* reset_timers that sets every timer to `now` (no period counted as elapsed)
reset_timers_no_backdate(g, now) ==
    [g EXCEPT !.last_wifi_scan     = now,
              !.last_checked_temp  = now,
              !.latest_user_action = now]

reset_timers(g, now) ==
    [g EXCEPT !.last_wifi_scan     = U32Sub(now, PERIOD_WIFI_SCAN),
              !.last_checked_temp  = U32Sub(now, PERIOD_CHECK_TEMP),
              !.latest_user_action = now]

set_relay(g, enabled, by) ==
    [g EXCEPT !.pin_relay = IF enabled THEN ACTIVE ELSE INACTIVE,
              !.ev.relay_writes = @ + 1,
              !.ev.relay_by = by]

set_blink(g, on, now) ==
    [g EXCEPT !.blink_state = on,
              !.pin_led = IF on THEN ACTIVE ELSE INACTIVE,
              !.last_changed_blink = now]

\* set_mode; observation: a temperature obtained in the mode that is left no
\* longer counts
set_mode(g, m) ==
    [g EXCEPT !.mode = m,
              !.hist.temp_got = IF m = g.mode THEN @ ELSE FALSE,
              !.hist.temp_t = IF m = g.mode THEN @ ELSE U32Zero]

deinit_ap(g) == [g EXCEPT !.ap_up = FALSE]
\* deinit_webserver that leaves the server open
deinit_webserver_left_open(g) == g
deinit_webserver(g) == [g EXCEPT !.server_up = FALSE]
\* init_ap: WiFi.softAP is called; both of its results are only logged
init_ap(g) == [g EXCEPT !.ap_up = TRUE, !.ev.ap_starts = @ + 1]
init_webserver(g) == [g EXCEPT !.server_up = TRUE, !.ev.server_starts = @ + 1]

to_offline(g, now) ==
    set_mode(init_webserver(init_ap(set_blink(reset_timers(g, now), TRUE, now))), "OFFLINE")

\* to_online up to the call of init_sta (FORCE_OFFLINE is false): the timers, the
\* indicator and the teardown of the access point and the configuration server
to_online_begin(g, now) ==
    LET g1 == reset_timers(g, now)
        g2 == [g1 EXCEPT !.pin_led = INACTIVE]
        g3 == deinit_webserver(deinit_ap(g2))
    IN  [g3 EXCEPT !.ev.attempts = @ + 1,
                   !.ev.after_attempt = g.hist.attempted,
                   !.ev.retry_ok = (~g.hist.attempted) \/ g.hist.gate_seen,
                   !.hist = [g.hist EXCEPT !.attempted = TRUE, !.t = now, !.gate_seen = FALSE]]

\* to_online after init_sta returned a mode regardless of the result
to_online_end_always_online(g, now, connected) ==
    [set_mode(g, "ONLINE") EXCEPT !.ev.sta_result = IF connected THEN "success" ELSE "failure"]

\* to_online after init_sta returned `connected`
to_online_end(g, now, connected) ==
    IF connected
    THEN [set_mode(g, "ONLINE") EXCEPT !.ev.sta_result = "success"]
    ELSE [to_offline(g, now) EXCEPT !.ev.sta_result = "failure"]

----------------------------------------------------------------------------
(* Sensor conversion tracker                                                *)

reset_conversion(g) ==
    [g EXCEPT !.started_temp_req = FALSE, !.last_started_temp_req = U32Zero]

\* process_conversion that reads the sensor as soon as a request is pending
process_conversion_no_wait(g, now, conversion_period, complete, temp) ==
    LET seen == [g EXCEPT !.ev.poll.called = TRUE,
                          !.ev.poll.after_miss = g.hist.missed,
                          !.hist.missed = FALSE,
                          !.ev.poll.was_started = g.started_temp_req,
                          !.ev.poll.elapsed = period_elapsed(g.last_started_temp_req, now,
                                                             conversion_period)]
    IN  IF g.started_temp_req
        THEN IF complete
             THEN [reset_conversion(seen) EXCEPT !.ev.poll.valid = TRUE, !.ev.poll.temp = temp,
                                                 !.ev.poll.asked = TRUE,
                                                 !.ev.poll.complete = TRUE]
             ELSE [reset_conversion(seen) EXCEPT !.ev.poll.asked = TRUE, !.hist.missed = TRUE]
        ELSE [seen EXCEPT !.last_started_temp_req = now, !.started_temp_req = TRUE,
                          !.ev.poll.requested = TRUE]

\* process_conversion that leaves the request pending when it delivers
process_conversion_keep_pending(g, now, conversion_period, complete, temp) ==
    LET seen == [g EXCEPT !.ev.poll.called = TRUE,
                          !.ev.poll.after_miss = g.hist.missed,
                          !.hist.missed = FALSE,
                          !.ev.poll.was_started = g.started_temp_req,
                          !.ev.poll.elapsed = period_elapsed(g.last_started_temp_req, now,
                                                             conversion_period)]
    IN  IF g.started_temp_req
        THEN IF period_elapsed(g.last_started_temp_req, now, conversion_period)
             THEN IF complete
                  THEN [seen EXCEPT !.ev.poll.valid = TRUE, !.ev.poll.temp = temp,
                                    !.ev.poll.asked = TRUE, !.ev.poll.complete = TRUE]
                  ELSE [reset_conversion(seen) EXCEPT !.ev.poll.asked = TRUE, !.hist.missed = TRUE]
             ELSE seen
        ELSE [seen EXCEPT !.last_started_temp_req = now, !.started_temp_req = TRUE,
                          !.ev.poll.requested = TRUE]

\* process_conversion that resets the request only when the conversion is complete
process_conversion_wait_on(g, now, conversion_period, complete, temp) ==
    LET seen == [g EXCEPT !.ev.poll.called = TRUE,
                          !.ev.poll.after_miss = g.hist.missed,
                          !.hist.missed = FALSE,
                          !.ev.poll.was_started = g.started_temp_req,
                          !.ev.poll.elapsed = period_elapsed(g.last_started_temp_req, now,
                                                             conversion_period)]
    IN  IF g.started_temp_req
        THEN IF period_elapsed(g.last_started_temp_req, now, conversion_period)
             THEN IF complete
                  THEN [reset_conversion(seen) EXCEPT !.ev.poll.valid = TRUE,
                                                      !.ev.poll.temp = temp,
                                                      !.ev.poll.asked = TRUE,
                                                      !.ev.poll.complete = TRUE]
                  ELSE [seen EXCEPT !.ev.poll.asked = TRUE, !.hist.missed = TRUE]
             ELSE seen
        ELSE [seen EXCEPT !.last_started_temp_req = now, !.started_temp_req = TRUE,
                          !.ev.poll.requested = TRUE]

\* process_conversion(now, conversion_period, temp): `complete` is what
\* isConversionComplete() answers, `temp` what getTempC() reads.  The result is
\* in ev.poll: valid (the return value) and temp (the out parameter).
process_conversion(g, now, conversion_period, complete, temp) ==
    LET seen == [g EXCEPT !.ev.poll.called = TRUE,
                          !.ev.poll.after_miss = g.hist.missed,
                          !.hist.missed = FALSE,
                          !.ev.poll.was_started = g.started_temp_req,
                          !.ev.poll.elapsed = period_elapsed(g.last_started_temp_req, now,
                                                             conversion_period)]
    IN  IF g.started_temp_req
        THEN IF period_elapsed(g.last_started_temp_req, now, conversion_period)
             THEN IF complete
                  THEN [reset_conversion(seen) EXCEPT !.ev.poll.valid = TRUE,
                                                      !.ev.poll.temp = temp,
                                                      !.ev.poll.asked = TRUE,
                                                      !.ev.poll.complete = TRUE]
                  ELSE [reset_conversion(seen) EXCEPT !.ev.poll.asked = TRUE, !.hist.missed = TRUE]
             ELSE seen
        ELSE [seen EXCEPT !.last_started_temp_req = now, !.started_temp_req = TRUE,
                          !.ev.poll.requested = TRUE]

----------------------------------------------------------------------------
(* Reporting client and the ONLINE tick                                     *)

\* report_temperature: the indicator is active during the call and inactive after
\* it; `code` is -1 when the client cannot begin, else what POST returns
report_temperature(g, code) ==
    [g EXCEPT !.pin_led = INACTIVE, !.ev.reported = TRUE, !.ev.code = code,
              !.ev.reports = @ + 1]

\* the response handling of process_online with 200 and 201 exchanged
actuate_swapped(g, now, code) ==
    IF code < 0 THEN to_offline(g, now)
    ELSE CASE code = 200 -> set_relay(g, TRUE, "code")
           [] code = 201 -> set_relay(g, FALSE, "code")
           [] code = 205 -> to_offline(g, now)
           [] OTHER      -> to_offline(g, now)

\* the response handling that stays ONLINE on an unrecognized code
actuate_lenient(g, now, code) ==
    IF code < 0 THEN to_offline(g, now)
    ELSE CASE code = 200 -> set_relay(g, FALSE, "code")
           [] code = 201 -> set_relay(g, TRUE, "code")
           [] code = 205 -> to_offline(g, now)
           [] OTHER      -> g

\* the response handling of process_online
actuate(g, now, code) ==
    IF code < 0 THEN to_offline(g, now)
    ELSE CASE code = 200 -> set_relay(g, FALSE, "code")
           [] code = 201 -> set_relay(g, TRUE, "code")
           [] code = 205 -> to_offline(g, now)
           [] OTHER      -> to_offline(g, now)

\* "Time to read from the sensor again" of process_online and process_offline
\* Observation: is the poll made before PERIOD_CHECK_TEMP has elapsed since the
\* tick that last obtained a temperature in this mode
poll_duty(g, now, complete, temp) ==
    IF period_elapsed(g.last_checked_temp, now, PERIOD_CHECK_TEMP)
    THEN LET seen == [g EXCEPT !.ev.polls = @ + 1,
                               !.ev.poll_early =
                                   g.hist.temp_got
                                   /\ ~period_elapsed(g.hist.temp_t, now, PERIOD_CHECK_TEMP)]
             p == process_conversion(seen, now, CONVERSION_PERIOD, complete, temp)
         IN  IF p.ev.poll.valid
             THEN [p EXCEPT !.hist.temp_got = TRUE, !.hist.temp_t = now]
             ELSE p
    ELSE g
\* does that poll reach isConversionComplete()
poll_asks(g, now) ==
    /\ period_elapsed(g.last_checked_temp, now, PERIOD_CHECK_TEMP)
    /\ g.started_temp_req
    /\ period_elapsed(g.last_started_temp_req, now, CONVERSION_PERIOD)

\* process_online after the poll c
report_after_poll(c, now, code) ==
    IF c.ev.poll.valid
    THEN actuate(report_temperature([c EXCEPT !.last_checked_temp = now], code), now, code)
    ELSE c

\* control_decision with the comparison turned round
control_decision_inverted(g, cur_temp, tgt_temp) ==
    set_relay(g, FltLess(tgt_temp, cur_temp), "threshold")

control_decision(g, cur_temp, tgt_temp) == set_relay(g, FltLess(cur_temp, tgt_temp), "threshold")

----------------------------------------------------------------------------
(* Configuration server handlers                                            *)

IsDigit(c) == c >= 48 /\ c <= 57
\* the decimal digits of str from index i on: << value, index after them >>
RECURSIVE DigitsFrom(_, _, _)
DigitsFrom(str, i, acc) ==
    IF i <= Len(str) /\ IsDigit(str[i]) THEN DigitsFrom(str, i + 1, acc * 10 + (str[i] - 48))
    ELSE << acc, i >>
\* String::toFloat (atof) on [-]digits[.digits]; text that is no number gives 0.
\* One fractional digit is kept, which is exact for the inputs of the model.
toFloat(str) ==
    LET neg   == Len(str) >= 1 /\ str[1] = 45
        w     == DigitsFrom(str, IF neg THEN 2 ELSE 1, 0)
        dot   == w[2] <= Len(str) /\ str[w[2]] = 46
        tenth == IF dot /\ w[2] + 1 <= Len(str) /\ IsDigit(str[w[2] + 1])
                 THEN str[w[2] + 1] - 48 ELSE 0
    IN  [neg |-> neg /\ (w[1] # 0 \/ tenth # 0), whole |-> u32(w[1]), tenth |-> tenth]

\* serialize_storage(_storage, true) on the program state
save(g) == [g EXCEPT !.eeprom = serialize_storage_write(g.storage, g.eeprom),
                     !.ev.saves = @ + 1]

update_internet_settings(g, ssid, passphrase) ==
    save([g EXCEPT !.storage.ssid = toCharArray(ssid, @, SSID_MAX),
                   !.storage.passphrase = toCharArray(passphrase, @, PASSPHRASE_MAX)])

first_time_storage(g) ==
    save([g EXCEPT !.storage = first_time_record(g.storage), !.ev.defaults = TRUE])

\* the "/settings" handler; an argument that was not sent is the empty string
apply_settings(g, req) ==
    LET g1 == IF Len(req.ssid) # 0 /\ Len(req.password) # 0
              THEN update_internet_settings(g, req.ssid, req.password) ELSE g
        g2 == IF Len(req.report_url) # 0
              THEN save([g1 EXCEPT !.storage.report_url = strcpy(@, req.report_url)]) ELSE g1
    IN  IF Len(req.setpoint) # 0
        THEN save([g2 EXCEPT !.storage.setpoint = toFloat(req.setpoint)]) ELSE g2

\* _server.handleClient() with at most one pending request
handleClient(g, req) ==
    CASE req.kind = "settings" -> apply_settings(g, req)
      [] req.kind = "reset"    -> first_time_storage(g)
      [] OTHER                 -> g

----------------------------------------------------------------------------
(* The OFFLINE tick                                                         *)

\* the retry gate of process_offline that is always open
retry_due_always(g, now) == TRUE

\* the retry gate as a comparison of now with the sum, the sum not reduced
\* modulo 2^32
retry_due_no_wrap(g, now) ==
    LET lo == g.latest_user_action[2] + PERIOD_RETRY_ONLINE[2]
        hi == g.latest_user_action[1] + PERIOD_RETRY_ONLINE[1] + lo \div HALF
    IN  hi < HALF /\ U32Ge(now, << hi, lo % HALF >>)

\* the retry gate of process_offline
retry_due(g, now) == period_elapsed(g.latest_user_action, now, PERIOD_RETRY_ONLINE)

\* "Time to scan for WiFi" that starts a scan without asking scanComplete()
scan_duty_unguarded(g, now) ==
    IF period_elapsed(g.last_wifi_scan, now, PERIOD_WIFI_SCAN)
    THEN [g EXCEPT !.scan_running = @ + 1,
                   !.ev.scan_due = TRUE,
                   !.ev.scan_busy = g.scan_running,
                   !.ev.scan_started = TRUE,
                   !.last_wifi_scan = now]
    ELSE g

\* process_offline, "Time to scan for WiFi": a scan is started when none is in
\* flight (scanComplete() = WIFI_SCAN_FAILED); the call returns at once
scan_duty(g, now) ==
    IF period_elapsed(g.last_wifi_scan, now, PERIOD_WIFI_SCAN)
    THEN [g EXCEPT !.scan_running = IF @ = 0 THEN 1 ELSE @,
                   !.ev.scan_due = TRUE,
                   !.ev.scan_busy = g.scan_running,
                   !.ev.scan_started = (g.scan_running = 0),
                   !.last_wifi_scan = now]
    ELSE g

\* process_offline, "Time to read from the sensor again", after the poll c
sensor_duty_after_poll(c, now, temp) ==
    IF c.ev.poll.valid
    THEN control_decision([c EXCEPT !.last_checked_temp = now], temp, c.storage.setpoint)
    ELSE c

\* process_offline, "Time to blink again"
blink_duty(g, now) ==
    IF period_elapsed(g.last_changed_blink, now,
                      IF g.blink_state THEN PERIOD_BLINK_ON ELSE PERIOD_BLINK_OFF)
    THEN set_blink(g, ~g.blink_state, now)
    ELSE g

\* the retry block calling to_online without looking at the credentials
retry_attempts_no_creds(g, now) == retry_due(g, now) /\ ~FORCE_OFFLINE

\* does the retry block of process_offline call to_online
retry_attempts(g, now) ==
    retry_due(g, now) /\ internet_settings_exist(g.storage) /\ ~FORCE_OFFLINE

----------------------------------------------------------------------------
(* Bounds and inputs of the model                                           *)

\* number of loop() calls explored
MaxTicks == 3
\* number of requests to the configuration server explored
MaxRequests == 1

\* micros() when setup() runs: shortly after power-up, and 45 s before the 32-bit
\* counter wraps (a device that has been up for some 70 minutes and restarts its
\* sketch state there has the same timers relative to `now`)
BootClocks == { u32(1000), U32Sub(U32Zero, u32(45000000)) }
\* time between two readings of micros() by consecutive ticks, in microseconds
Deltas == { 1000, CONVERSION_PERIOD_US, PERIOD_RETRY_ONLINE_US }
\* getTempC readings: 17.0 and 19.0
Temps == { Flt(170), Flt(190) }
\* results of report_temperature: transport failure, and HTTP status codes
Codes == { -1, 200, 201, 205, 404 }
\* numbers of networks a scan reports (within the capacity of _found_networks)
ScanFounds == { 2 }

\* on_scan_complete: _num_found_networks = found, an int stored in a uint8_t
stored_count(found) == found % 256
\* on_scan_complete: the indices i of _found_networks[i] its loop writes
written_indices(found) == 0 .. stored_count(found) - 1

Str_ab   == << 97, 98 >>                      \* "ab"
Str_pw   == << 112, 119 >>                    \* "pw"
Str_url  == << 104, 116, 116, 112, 58, 47, 47, 120, 47 >>   \* "http://x/"
Str_18_5 == << 49, 56, 46, 53 >>              \* "18.5"
\* requests pending at the configuration server when handleClient runs
Requests ==
    { [kind |-> "none", ssid |-> << >>, password |-> << >>, report_url |-> << >>, setpoint |-> << >>],
      [kind |-> "reset", ssid |-> << >>, password |-> << >>, report_url |-> << >>, setpoint |-> << >>],
      [kind |-> "settings", ssid |-> Str_ab, password |-> Str_pw, report_url |-> << >>, setpoint |-> << >>],
      [kind |-> "settings", ssid |-> << >>, password |-> << >>, report_url |-> Str_url, setpoint |-> Str_18_5] }

\* EEPROM contents at power-up: erased flash, a record saved earlier by this
\* firmware (with credentials), and that record with its magic altered
BlankEeprom == [a \in 1 .. EEPROM_SIZE |-> 255]
ConfigWithCredentials ==
    [ magic      |-> MAGIC,
      version    |-> VERSION,
      ssid       |-> toCharArray(Str_ab, Zeros(SSID_MAX), SSID_MAX),
      passphrase |-> toCharArray(Str_pw, Zeros(PASSPHRASE_MAX), PASSPHRASE_MAX),
      report_url |-> strcpy(Zeros(REPORT_URL_MAX), REPORT_URL_DEFAULT),
      setpoint   |-> Flt(210) ]
SavedEeprom == serialize_storage_write(ConfigWithCredentials, BlankEeprom)
AlteredMagic(ee, i) == EepromWrite(ee, ADDR_MAGIC + i, EepromRead(ee, ADDR_MAGIC + i) + 1)
InitialEeproms ==
    { BlankEeprom, SavedEeprom } \cup { AlteredMagic(SavedEeprom, i) : i \in 0 .. MAGIC_SIZE - 1 }

----------------------------------------------------------------------------
(* Actions                                                                  *)

NoHist == [ attempted |-> FALSE, t |-> U32Zero, gate_seen |-> FALSE, missed |-> FALSE,
            temp_got |-> FALSE, temp_t |-> U32Zero ]

\* the globals of the sketch before setup() runs, and the observations empty
PowerUp ==
    /\ caller = "none"
    /\ mode = "OFFLINE"
    /\ storage = ZeroStorage
    /\ last_wifi_scan = U32Zero
    /\ last_checked_temp = U32Zero
    /\ last_changed_blink = U32Zero
    /\ latest_user_action = U32Zero
    /\ last_started_temp_req = U32Zero
    /\ started_temp_req = FALSE
    /\ blink_state = FALSE
    /\ pin_led = "UNSET"
    /\ pin_relay = "UNSET"
    /\ ap_up = FALSE
    /\ server_up = FALSE
    /\ sta_status = WL_IDLE_STATUS
    /\ yields = 0
    /\ scan_running = 0
    /\ num_found_networks = 0
    /\ requests = 0
    /\ ticks = 0
    /\ ev = NoEv("none")
    /\ hist = NoHist

Init ==
    /\ pc = "boot"
    /\ micros \in BootClocks
    /\ eeprom \in InitialEeproms
    /\ probe = [k |-> "none"]
    /\ PowerUp

\* setup(): sensors, load, validity gate, then to_online or to_offline.  With
\* credentials the action ends inside init_sta, right after WiFi.begin returned.
Setup ==
    /\ pc = "boot"
    /\ LET now == micros
           g0  == Clock(Begin(G, "setup"), now)
           g1  == [reset_conversion(g0) EXCEPT !.storage = serialize_storage_read(g0.eeprom),
                                               !.ev.loaded_magic =
                                                   read_chars(g0.eeprom, ADDR_MAGIC, MAGIC_SIZE)]
           g2  == IF ~magic_match(g1.storage) THEN first_time_storage(g1) ELSE g1
       IN  IF internet_settings_exist(g2.storage)
           THEN IF FORCE_OFFLINE
                THEN /\ Commit(to_offline(g2, now))
                     /\ pc' = "loop"
                     /\ UNCHANGED << caller, sta_status >>
                ELSE /\ Commit(to_online_begin(g2, now))
                     /\ pc' = "sta"
                     /\ caller' = "setup"
                     /\ sta_status' \in WlStatuses
           ELSE /\ Commit(to_offline(g2, now))
                /\ pc' = "loop"
                /\ UNCHANGED << caller, sta_status >>
    /\ UNCHANGED << micros, yields, requests, ticks, probe >>

\* one pass of init_sta's wait loop: yield_delay(), then status = WiFi.status()
StaPoll ==
    /\ pc = "sta"
    /\ sta_status = WL_DISCONNECTED
    /\ yields' = 1 - yields
    /\ sta_status' \in WlStatuses
    /\ UNCHANGED << pc, caller, micros, mode, storage, eeprom, last_wifi_scan,
                    last_checked_temp, last_changed_blink, latest_user_action,
                    last_started_temp_req, started_temp_req, blink_state, pin_led,
                    pin_relay, ap_up, server_up, scan_running, num_found_networks,
                    requests, ticks, ev, hist, probe >>

\* init_sta returns, to_online finishes, and so does its caller: process_offline
\* still sets _latest_user_action
StaReturn ==
    /\ pc = "sta"
    /\ sta_status # WL_DISCONNECTED
    /\ LET now == micros
           g1  == to_online_end(G, now, sta_status = WL_CONNECTED)
       IN  Commit(IF caller = "retry" THEN [g1 EXCEPT !.latest_user_action = now] ELSE g1)
    /\ pc' = "loop"
    /\ caller' = "none"
    /\ sta_status' = WL_IDLE_STATUS
    /\ yields' = 0
    /\ UNCHANGED << micros, requests, ticks, probe >>

\* Inputs of a tick.  At most one request is pending at the configuration server,
\* and none once MaxRequests have been handled.
PendingRequests == IF requests < MaxRequests THEN Requests ELSE { r \in Requests : r.kind = "none" }
\* The sensor is asked (isConversionComplete) only by a poll
\* that reaches it, read (getTempC) only when it answered complete, and the
\* report is sent only with a valid temperature.
SensorAnswers(g, now) == IF poll_asks(g, now) THEN BOOLEAN ELSE { FALSE }
SensorReadings(complete) == IF complete THEN Temps ELSE { FltZero }
ReportResults(c) == IF c.ev.poll.valid THEN Codes ELSE { 0 }

\* process_online with micros() read D microseconds after the last reading, D
\* one of Ds (each one-element set binds the state the step before it left)
online_tick(Ds) ==
    \E d \in Ds :
      LET now == U32Add(micros, u32(d))
      IN  \E g0 \in { Clock(Begin(G, "process_online"), now) } :
          \E complete \in SensorAnswers(g0, now) :
          \E temp \in SensorReadings(complete) :
          \E c \in { poll_duty(g0, now, complete, temp) } :
          \E code \in ReportResults(c) :
          \E g \in { report_after_poll(c, now, code) } :
            /\ Commit(g)
            /\ micros' = now

\* loop() in mode ONLINE: process_online
ProcessOnline ==
    /\ pc = "loop"
    /\ mode = "ONLINE"
    /\ ticks < MaxTicks
    /\ online_tick(Deltas)
    /\ ticks' = ticks + 1
    /\ UNCHANGED << pc, caller, sta_status, yields, requests, probe >>

\* the retry block of process_offline when it makes no attempt
retry_skip(g, now) ==
    IF retry_due(g, now) THEN [g EXCEPT !.latest_user_action = now] ELSE g

\* process_offline, its duties in order, with one of the requests Rs pending
\* and micros() read D microseconds after the last reading, D one of Ds.
\* micros() is read first; the handlers run by handleClient do not use it.  When
\* the retry block calls to_online the step ends inside init_sta, right after
\* WiFi.begin returned.
offline_tick(Ds, Rs) ==
    \E req \in Rs :
    \E h \in { handleClient(Begin(G, "process_offline"), req) } :
    \E d \in Ds :
      LET now == U32Add(micros, u32(d))
      IN  \E g1 \in { Clock(h, now) } :
          \E g2 \in { scan_duty(g1, now) } :
          \E complete \in SensorAnswers(g2, now) :
          \E temp \in SensorReadings(complete) :
          \E c  \in { poll_duty(g2, now, complete, temp) } :
          \E g3 \in { sensor_duty_after_poll(c, now, temp) } :
          \E g4 \in { blink_duty(g3, now) } :
          \E g5 \in { [g4 EXCEPT !.ev.retry_due = retry_due(g4, now)
                                                  /\ internet_settings_exist(g4.storage)] } :
            /\ micros' = now
            /\ requests' = IF req.kind = "none" THEN requests ELSE requests + 1
            /\ IF retry_attempts(g5, now)
               THEN /\ \E g \in { to_online_begin(g5, now) } : Commit(g)
                    /\ pc' = "sta"
                    /\ caller' = "retry"
                    /\ sta_status' \in WlStatuses
               ELSE /\ \E g \in { retry_skip(g5, now) } : Commit(g)
                    /\ UNCHANGED << pc, caller, sta_status >>

\* loop() in mode OFFLINE: process_offline
ProcessOffline ==
    /\ pc = "loop"
    /\ mode = "OFFLINE"
    /\ ticks < MaxTicks
    /\ offline_tick(Deltas, PendingRequests)
    /\ ticks' = ticks + 1
    /\ UNCHANGED << yields, probe >>

\* on_scan_complete(found): the scan's completion callback, run by the core while
\* the sketch is between ticks or yielding
OnScanComplete ==
    /\ pc \in { "loop", "sta" }
    /\ scan_running > 0
    /\ \E found \in ScanFounds : num_found_networks' = stored_count(found)
    /\ scan_running' = scan_running - 1
    /\ UNCHANGED << pc, caller, micros, mode, storage, eeprom, last_wifi_scan,
                    last_checked_temp, last_changed_blink, latest_user_action,
                    last_started_temp_req, started_temp_req, blink_state, pin_led,
                    pin_relay, ap_up, server_up, sta_status, yields, requests, ticks,
                    ev, hist, probe >>

Next == Setup \/ StaPoll \/ StaReturn \/ ProcessOnline \/ ProcessOffline \/ OnScanComplete

Spec == Init /\ [][Next]_vars

\* init_sta's loop keeps running while the sketch is in it: a pass that can be
\* taken is taken, and the function returns once its loop condition is false.
\* What the radio answers is not constrained.
FairSpec ==
    /\ Spec
    /\ WF_vars(StaPoll)
    /\ WF_vars(StaReturn)

----------------------------------------------------------------------------
(* The device left running: loop() called for ever                           *)

\* time between the readings of micros() by consecutive ticks: 2^29 us, about
\* 9 minutes, so that the 32-bit clock is back at its first value after 8 ticks
RunDeltas == { 2 ^ 29 }
\* no request arrives at the configuration server: the credentials stay
RunRequests == { r \in Requests : r.kind = "none" }

\* power-up with a saved record that holds credentials
InitRun ==
    /\ pc = "boot"
    /\ micros = u32(1000)
    /\ eeprom = SavedEeprom
    /\ probe = [ k |-> "none" ]
    /\ PowerUp

RunOnline ==
    /\ pc = "loop"
    /\ mode = "ONLINE"
    /\ online_tick(RunDeltas)
    /\ UNCHANGED << pc, caller, sta_status, yields, requests, ticks, probe >>

RunOffline ==
    /\ pc = "loop"
    /\ mode = "OFFLINE"
    /\ offline_tick(RunDeltas, RunRequests)
    /\ UNCHANGED << yields, ticks, probe >>

NextRun == Setup \/ StaPoll \/ StaReturn \/ RunOnline \/ RunOffline \/ OnScanComplete

\* loop() is called again as soon as it has returned, and setup() and init_sta
\* run on; what the radio, the sensor and the report server answer is free
SpecRun ==
    /\ InitRun
    /\ [][NextRun]_vars
    /\ WF_vars(Setup)
    /\ WF_vars(StaPoll)
    /\ WF_vars(StaReturn)
    /\ WF_vars(RunOnline)
    /\ WF_vars(RunOffline)

----------------------------------------------------------------------------
(* The clock gate on its own: period_elapsed applied to 32-bit arguments     *)

\* how far the arguments reach from 0, from 2^31 and from 2^32
GateSpan == 1
\* values at the ends and in the middle of the unsigned long range
GatePoints ==
    UNION { { << 0, k >>, << HALF \div 2 - 1, HALF - 1 - k >>,
              << HALF \div 2, k >>, << HALF - 1, HALF - 1 - k >> } : k \in 0 .. GateSpan }

InitGate ==
    /\ pc = "gate"
    /\ micros = U32Zero
    /\ eeprom = BlankEeprom
    /\ probe \in [ k : { "gate" }, last_occurrence : GatePoints, now : GatePoints,
                   period : GatePoints, done : { FALSE }, result : { FALSE } ]
    /\ PowerUp

\* one call of period_elapsed; it reads and writes no global
GateCall ==
    /\ pc = "gate"
    /\ ~probe.done
    /\ probe' = [probe EXCEPT !.done = TRUE,
                              !.result = period_elapsed(probe.last_occurrence, probe.now,
                                                        probe.period)]
    /\ Commit(G)
    /\ UNCHANGED << pc, caller, micros, sta_status, yields, requests, ticks >>

SpecGate == InitGate /\ [][GateCall]_vars

----------------------------------------------------------------------------
(* The store on its own: a configuration saved, then loaded after a restart  *)

\* setpoints in tenths of a degree: 18.0, 18.5, 21.0, 0.5
StoreSetpoints == { 180, 185, 210, 5 }
StoreConfigs ==
    { [ magic      |-> MAGIC,
        version    |-> VERSION,
        ssid       |-> toCharArray(s, Zeros(SSID_MAX), SSID_MAX),
        passphrase |-> toCharArray(p, Zeros(PASSPHRASE_MAX), PASSPHRASE_MAX),
        report_url |-> strcpy(Zeros(REPORT_URL_MAX), u),
        setpoint   |-> Flt(t) ] :
      s \in { << >>, Str_ab }, p \in { << >>, Str_pw },
      u \in { REPORT_URL_DEFAULT, Str_url }, t \in StoreSetpoints }

\* EEPROM contents before the save: erased flash (0xFF) and zeroed flash
InitStore ==
    /\ pc = "store"
    /\ micros = U32Zero
    /\ eeprom \in { BlankEeprom, Zeros(EEPROM_SIZE) }
    /\ probe \in [ k : { "store" }, phase : { "fresh" }, cfg : StoreConfigs ]
    /\ PowerUp

\* the configuration cfg is put in _storage and saved: serialize_storage(_storage, true)
StoreSave ==
    /\ pc = "store"
    /\ probe.phase = "fresh"
    /\ Commit(save([Begin(G, "save") EXCEPT !.storage = probe.cfg]))
    /\ probe' = [ k |-> "store", phase |-> "saved", cfg |-> probe.cfg, before |-> eeprom ]
    /\ UNCHANGED << pc, caller, micros, sta_status, yields, requests, ticks >>

\* after a restart (_storage zero-initialised again) the configuration is
\* loaded as setup() does: serialize_storage(_storage, false)
StoreLoad ==
    /\ pc = "store"
    /\ probe.phase = "saved"
    /\ Commit([Begin(G, "load") EXCEPT !.storage = serialize_storage_read(eeprom)])
    /\ probe' = [probe EXCEPT !.phase = "loaded"]
    /\ UNCHANGED << pc, caller, micros, sta_status, yields, requests, ticks >>

NextStore == StoreSave \/ StoreLoad

SpecStore == InitStore /\ [][NextStore]_vars

----------------------------------------------------------------------------
(* The scan completion on its own: scans that report any number of networks  *)

\* number of scans started
MaxScans == 3
\* numbers of networks a scan reports: none, a few, around the capacity of the
\* list, and around the range of the uint8_t count
ScanCounts == { 0, 1, 2, MAX_NETWORKS - 1, MAX_NETWORKS, MAX_NETWORKS + 1, 255, 256, 300 }

InitScan ==
    /\ pc = "scan"
    /\ micros = U32Zero
    /\ eeprom = BlankEeprom
    /\ probe = [ k |-> "none" ]
    /\ PowerUp

\* WiFi.scanNetworksAsync(on_scan_complete, ...) with no scan in flight
ScanStart ==
    /\ pc = "scan"
    /\ scan_running = 0
    /\ ticks < MaxScans
    /\ scan_running' = 1
    /\ ticks' = ticks + 1
    /\ UNCHANGED << pc, caller, micros, mode, storage, eeprom, last_wifi_scan,
                    last_checked_temp, last_changed_blink, latest_user_action,
                    last_started_temp_req, started_temp_req, blink_state, pin_led,
                    pin_relay, ap_up, server_up, sta_status, yields, requests,
                    num_found_networks, ev, hist, probe >>

\* on_scan_complete(found): probe keeps the argument, the indices written and
\* the count stored before.  A write behind the end of _found_networks leaves
\* the behaviour of the program undefined.
ScanComplete ==
    /\ pc = "scan"
    /\ scan_running > 0
    /\ \E found \in ScanCounts :
         /\ num_found_networks' = stored_count(found)
         /\ probe' = [ k |-> "scan", found |-> found, written |-> written_indices(found),
                       previous |-> num_found_networks ]
         /\ pc' = IF written_indices(found) \subseteq 0 .. MAX_NETWORKS - 1
                  THEN "scan" ELSE "undefined"
    /\ scan_running' = scan_running - 1
    /\ UNCHANGED << caller, micros, mode, storage, eeprom, last_wifi_scan,
                    last_checked_temp, last_changed_blink, latest_user_action,
                    last_started_temp_req, started_temp_req, blink_state, pin_led,
                    pin_relay, ap_up, server_up, sta_status, yields, requests, ticks,
                    ev, hist >>

NextScan == ScanStart \/ ScanComplete

SpecScan == InitScan /\ [][NextScan]_vars

----------------------------------------------------------------------------
(* The configuration handlers on their own: boot, then requests to          *)
(* "/settings" and "/reset" in any order                                    *)

\* number of requests handled after boot
MaxCalls == 2

Str_21  == << 50, 49 >>                       \* "21"
\* an ssid one character longer than the array, a URL as long as the array
Str_ssid33 == [i \in 1 .. SSID_MAX + 1 |-> 97]
Str_url32  == [i \in 1 .. REPORT_URL_MAX |-> 120]
\* "/settings" with every combination of arguments sent or not, and "/reset".
\* The URLs spill at most STORAGE_PADDING bytes behind report_url.
SettingsRequests ==
    { [kind |-> "settings", ssid |-> s, password |-> p, report_url |-> u, setpoint |-> t] :
        s \in { << >>, Str_ab, Str_ssid33 }, p \in { << >>, Str_pw },
        u \in { << >>, Str_url, Str_url32 }, t \in { << >>, Str_18_5, Str_21 } }
    \cup { [kind |-> "reset", ssid |-> << >>, password |-> << >>, report_url |-> << >>,
            setpoint |-> << >>] }

InitSettings ==
    /\ pc = "settings_boot"
    /\ micros = U32Zero
    /\ eeprom \in { BlankEeprom, SavedEeprom }
    /\ probe = [ k |-> "none" ]
    /\ PowerUp

\* setup() up to the validity gate: load, and the defaults when the magic does
\* not match
SettingsBoot ==
    /\ pc = "settings_boot"
    /\ LET g1 == [Begin(G, "setup") EXCEPT !.storage = serialize_storage_read(eeprom)]
       IN  Commit(IF ~magic_match(g1.storage) THEN first_time_storage(g1) ELSE g1)
    /\ pc' = "settings"
    /\ UNCHANGED << caller, micros, sta_status, yields, requests, ticks, probe >>

\* one request handled by _server.handleClient(); probe keeps the request and
\* the configuration as it was before
HandleRequest ==
    /\ pc = "settings"
    /\ requests < MaxCalls
    /\ \E req \in SettingsRequests :
         /\ Commit(handleClient(Begin(G, "handle_client"), req))
         /\ probe' = [ k |-> "settings", req |-> req, before |-> storage ]
    /\ requests' = requests + 1
    /\ UNCHANGED << pc, caller, micros, sta_status, yields, ticks >>

NextSettings == SettingsBoot \/ HandleRequest

SpecSettings == InitSettings /\ [][NextSettings]_vars

----------------------------------------------------------------------------
(* Properties of the mode controller, checked under Spec.  `ev` holds what    *)
(* the handler that ran last did, until the next handler starts.              *)

\* C1: when an ONLINE tick obtains a temperature and the report returns 200 the
\* relay is set OFF, when it returns 201 the relay is set ON; in both cases the
\* mode is still ONLINE after the tick and neither the access point nor the
\* configuration server was started.
C1_ActuationKeepsOnline ==
    (ev.op = "process_online" /\ ev.poll.valid /\ ev.reported /\ ev.code \in { 200, 201 }) =>
        /\ ev.relay_writes = 1
        /\ pin_relay = IF ev.code = 201 THEN ACTIVE ELSE INACTIVE
        /\ mode = "ONLINE"
        /\ ev.ap_starts = 0 /\ ev.server_starts = 0
        /\ ~ap_up /\ ~server_up

\* an ONLINE tick whose report returned 201 and that switched the relay on
C1_Witness ==
    /\ ev.op = "process_online" /\ ev.reported /\ ev.code = 201
    /\ pin_relay = ACTIVE /\ mode = "ONLINE"

\* C2: when an ONLINE tick performs a report, every result other than 200 and
\* 201 (negative, 205, any other status) leaves the mode OFFLINE at the end of
\* the tick, the access point and the configuration server started again and
\* the indicator in blink mode (blink state on, LED active).
C2_FailedReportGoesOffline ==
    (ev.op = "process_online" /\ ev.reported /\ ev.code \notin { 200, 201 }) =>
        /\ mode = "OFFLINE"
        /\ ap_up /\ server_up
        /\ ev.ap_starts = 1 /\ ev.server_starts = 1
        /\ blink_state /\ pin_led = ACTIVE
        /\ ev.relay_writes = 0

\* an ONLINE tick whose report returned 404 and that ended OFFLINE
C2_Witness ==
    /\ ev.op = "process_online" /\ ev.reported /\ ev.code = 404
    /\ mode = "OFFLINE" /\ ap_up /\ server_up

\* C5: a handler makes at most one connect attempt; an OFFLINE tick whose retry
\* gate is open with credentials present makes exactly one; and an attempt that
\* follows an earlier attempt made at time t comes only after the clock gate has
\* reported PERIOD_RETRY_ONLINE elapsed since t.
C5_OneAttemptPerWindow ==
    /\ ev.attempts <= 1
    /\ (ev.op = "process_offline" /\ ev.retry_due) => ev.attempts = 1
    /\ (ev.op = "process_offline" /\ ev.attempts = 1) => ev.retry_due
    /\ ev.attempts = 1 => ev.retry_ok

\* an OFFLINE tick that made the attempt following an earlier one
C5_Witness ==
    /\ ev.op = "process_offline" /\ ev.attempts = 1
    /\ ev.after_attempt /\ ev.retry_ok

\* C6: when a connect attempt succeeds, at boot or on a retry, the mode is
\* ONLINE, the indicator inactive, the access point and the configuration server
\* down, and the timers are reset relative to the time `now` of the transition:
\* scan and temperature-check timers one period back (their periods count as
\* elapsed), the retry timer at now.
C6_ConnectSuccess ==
    ev.sta_result = "success" =>
        /\ mode = "ONLINE"
        /\ pin_led = INACTIVE
        /\ ~ap_up /\ ~server_up
        /\ last_wifi_scan = U32Sub(ev.now, PERIOD_WIFI_SCAN)
        /\ period_elapsed(last_wifi_scan, ev.now, PERIOD_WIFI_SCAN)
        /\ last_checked_temp = U32Sub(ev.now, PERIOD_CHECK_TEMP)
        /\ period_elapsed(last_checked_temp, ev.now, PERIOD_CHECK_TEMP)
        /\ latest_user_action = ev.now

\* a retry from OFFLINE that connected
C6_Witness ==
    /\ ev.sta_result = "success" /\ ev.op = "process_offline"
    /\ mode = "ONLINE" /\ pc = "loop"

\* C7: when a connect attempt fails, the mode is OFFLINE when to_online has
\* returned (never ONLINE), the access point and the configuration server are
\* running and the indicator is in blink mode.
C7_ConnectFailure ==
    ev.sta_result = "failure" =>
        /\ mode = "OFFLINE" /\ mode # "ONLINE"
        /\ ap_up /\ server_up
        /\ ev.ap_starts = 1 /\ ev.server_starts = 1
        /\ blink_state /\ pin_led = ACTIVE

\* a boot whose connect attempt failed
C7_Witness ==
    /\ ev.sta_result = "failure" /\ ev.op = "setup"
    /\ mode = "OFFLINE" /\ pc = "loop"

\* C8: when the magic read at boot differs from MAGIC in at least one byte,
\* magic_match is false and setup leaves the factory defaults in the
\* configuration (MAGIC, VERSION, empty ssid and passphrase, setpoint 18.0, the
\* default report URL), the mode OFFLINE, and makes no connect attempt.
C8_CorruptMagicGivesDefaults ==
    (ev.op = "setup" /\ ev.loaded_magic # MAGIC) =>
        /\ ~magic_match([ZeroStorage EXCEPT !.magic = ev.loaded_magic])
        /\ ev.defaults
        /\ storage.magic = MAGIC
        /\ storage.version = VERSION
        /\ CStr(storage.ssid) = << >>
        /\ CStr(storage.passphrase) = << >>
        /\ storage.setpoint = Flt(180)
        /\ CStr(storage.report_url) = REPORT_URL_DEFAULT
        /\ mode = "OFFLINE"
        /\ ev.attempts = 0 /\ ev.sta_result = "none"
        /\ pc = "loop"

\* a boot from a saved record whose last magic byte alone was altered
C8_Witness ==
    /\ ev.op = "setup" /\ ev.defaults
    /\ ev.loaded_magic = [MAGIC EXCEPT ![MAGIC_SIZE] = MAGIC[MAGIC_SIZE] + 1]
    /\ mode = "OFFLINE"

\* C10: a call of process_conversion at a time when the conversion period has not
\* elapsed since the request returns no temperature and leaves a request
\* pending: with none pending before, one is issued at `now`; with one pending
\* that is younger than the period, the sensor is not asked and the request time
\* stays where it was.
C10_EarlyPollKeepsAwaiting ==
    (ev.poll.called /\ ~(ev.poll.was_started /\ ev.poll.elapsed)) =>
        /\ ~ev.poll.valid
        /\ ev.poll.temp = FltZero
        /\ started_temp_req
        /\ ~ev.poll.asked
        /\ ev.poll.requested = ~ev.poll.was_started
        /\ ~ev.poll.was_started => last_started_temp_req = ev.now
        /\ ev.poll.was_started =>
               ~period_elapsed(last_started_temp_req, ev.now, CONVERSION_PERIOD)

\* a poll that found a request pending and younger than the conversion period
C10_Witness ==
    /\ ev.poll.called /\ ev.poll.was_started /\ ~ev.poll.elapsed
    /\ started_temp_req

----------------------------------------------------------------------------
(* Properties of the store, the connect wait and the clock gate             *)

\* C3: for every valid configuration, save followed by load yields a record
\* identical to the one saved, field for field (the setpoint with its fractional
\* part and the version included).  Checked under SpecStore.
C3_SaveLoadRoundTrip ==
    (probe.k = "store" /\ probe.phase = "loaded") => storage = probe.cfg

\* a configuration with setpoint 18.5 saved and loaded: the setpoint read back
\* is 18.0, and the version read back is not the one saved
C3_Witness ==
    /\ probe.k = "store" /\ probe.phase = "loaded"
    /\ probe.cfg.setpoint = Flt(185) /\ storage.setpoint = Flt(180)
    /\ probe.cfg.version = VERSION /\ storage.version # VERSION

\* C4: the wait of init_sta always terminates: whatever statuses the radio
\* reports, a connect attempt that has started returns.  Checked under FairSpec.
C4_InitStaTerminates == (pc = "sta") ~> (pc = "loop")

\* init_sta inside its loop, after a pass that yielded and read WL_DISCONNECTED
\* again
C4_Witness ==
    /\ pc = "sta" /\ yields = 1
    /\ sta_status = WL_DISCONNECTED

\* (now - last_occurrence) mod 2^32 >= period, on the 16-bit halves: the
\* difference d, 2^32 added when it is negative, then compared half by half
ModDiffGe(now, last_occurrence, period) ==
    LET dh  == now[1] - last_occurrence[1]
        dl  == now[2] - last_occurrence[2]
        neg == dh < 0 \/ (dh = 0 /\ dl < 0)
        x   == (IF neg THEN dh + HALF ELSE dh) - period[1]
        y   == dl - period[2]
    IN  IF x >= 2 THEN TRUE
        ELSE IF x <= -2 THEN FALSE
        ELSE x * HALF + y >= 0

\* C9: for all last, now and period of 32 bits, period_elapsed(last, now, period)
\* is true iff (now - last) mod 2^32 >= period, also when now has wrapped past
\* zero and is smaller than last; the call changes nothing of the program's
\* state.  Checked under SpecGate.
C9_GateIsModularDifference ==
    (probe.k = "gate" /\ probe.done) =>
        /\ probe.result = ModDiffGe(probe.now, probe.last_occurrence, probe.period)
        /\ PowerUp /\ micros = U32Zero /\ eeprom = BlankEeprom

\* a call with now wrapped past zero, smaller than last, that reports elapsed
C9_Witness ==
    /\ probe.k = "gate" /\ probe.done
    /\ U32Gt(probe.last_occurrence, probe.now)
    /\ U32Gt(probe.period, U32Zero)
    /\ probe.result

----------------------------------------------------------------------------
(* Properties of the sensor conversion, the handlers and the duties          *)

\* C11: process_conversion returns a temperature only on a call that found a
\* request pending, with the conversion period elapsed since the request and
\* the device reporting the conversion complete; that call returns the one
\* temperature read and leaves no request pending, so the same conversion
\* cannot be delivered by a later call.
C11_DeliveryOnlyWhenComplete ==
    /\ ev.poll.valid =>
           /\ ev.poll.called /\ ev.poll.was_started /\ ev.poll.elapsed
           /\ ev.poll.asked /\ ev.poll.complete
           /\ ev.poll.temp \in Temps
           /\ ~ev.poll.requested
           /\ ~started_temp_req /\ last_started_temp_req = U32Zero
    /\ (ev.poll.called /\ ~ev.poll.valid) => ev.poll.temp = FltZero
    /\ (ev.poll.called /\ ev.poll.was_started /\ ev.poll.elapsed /\ ev.poll.complete) =>
           ev.poll.valid

\* a poll that delivered the reading 17.0
C11_Witness ==
    /\ ev.poll.valid /\ ev.poll.temp = Flt(170)
    /\ ~started_temp_req

\* C12: the "/settings" handler applies each supplied field independently of
\* the others: every argument sent with a non-empty value is written to the
\* configuration and is in the EEPROM when the handler returns, and every field
\* whose argument was not sent is unchanged.  Checked under SpecSettings.
C12_FieldsAppliedIndependently ==
    (probe.k = "settings" /\ probe.req.kind = "settings") =>
        LET r == probe.req
            b == probe.before
            saved == serialize_storage_read(eeprom)
        IN  /\ IF r.ssid # << >>
               THEN /\ storage.ssid = toCharArray(r.ssid, b.ssid, SSID_MAX)
                    /\ saved.ssid = storage.ssid
               ELSE storage.ssid = b.ssid
            /\ IF r.password # << >>
               THEN /\ storage.passphrase = toCharArray(r.password, b.passphrase, PASSPHRASE_MAX)
                    /\ saved.passphrase = storage.passphrase
               ELSE storage.passphrase = b.passphrase
            /\ IF r.report_url # << >>
               THEN /\ CStr(storage.report_url) = r.report_url
                    /\ saved.report_url = storage.report_url
               ELSE storage.report_url = b.report_url
            /\ IF r.setpoint # << >>
               THEN /\ storage.setpoint = toFloat(r.setpoint)
                    /\ saved.setpoint = storage.setpoint
               ELSE storage.setpoint = b.setpoint

\* a request that sent the ssid "ab" and no password: the ssid is as it was
C12_Witness ==
    /\ probe.k = "settings" /\ probe.req.kind = "settings"
    /\ probe.req.ssid = Str_ab /\ probe.req.password = << >>
    /\ storage.ssid = probe.before.ssid
    /\ CStr(storage.ssid) # Str_ab

\* C13: in every state reached after boot by "/settings" and "/reset" requests
\* with strings of any length, ssid, passphrase and report_url each hold a NUL
\* inside their own capacity, and a request leaves alone the fields it does not
\* write.  Checked under SpecSettings.
C13_StringsTerminatedFieldsSeparate ==
    (pc = "settings") =>
        /\ Len(storage.ssid) = SSID_MAX /\ HasNul(storage.ssid)
        /\ Len(storage.passphrase) = PASSPHRASE_MAX /\ HasNul(storage.passphrase)
        /\ Len(storage.report_url) = REPORT_URL_MAX /\ HasNul(storage.report_url)
        /\ (probe.k = "settings" /\ probe.req.kind = "settings") =>
               LET r == probe.req
                   b == probe.before
               IN  /\ storage.magic = b.magic /\ storage.version = b.version
                   /\ (r.ssid = << >> \/ r.password = << >>) =>
                          (storage.ssid = b.ssid /\ storage.passphrase = b.passphrase)
                   /\ r.report_url = << >> => storage.report_url = b.report_url
                   /\ r.setpoint = << >> => storage.setpoint = b.setpoint

\* a request whose URL is as long as the array: report_url holds no NUL
C13_Witness ==
    /\ probe.k = "settings" /\ probe.req.report_url = Str_url32
    /\ ~HasNul(storage.report_url)
    /\ CStr(storage.ssid) # Str_ssid33

\* C14: a relay write made by an ONLINE tick comes from the response code of
\* the report, 200 or 201, never from the threshold comparison; a relay write
\* made by an OFFLINE tick sets the relay to (cur_temp < setpoint) for the
\* temperature the tick obtained and the setpoint configured at that time.
C14_RelayAuthorityFollowsMode ==
    /\ ev.relay_writes <= 1
    /\ (ev.op = "process_online" /\ ev.relay_writes = 1) =>
           /\ ev.relay_by = "code"
           /\ ev.poll.valid /\ ev.reported /\ ev.code \in { 200, 201 }
    /\ (ev.op = "process_offline" /\ ev.relay_writes = 1) =>
           /\ ev.relay_by = "threshold"
           /\ ev.poll.valid /\ ~ev.reported
           /\ pin_relay = IF FltLess(ev.poll.temp, storage.setpoint) THEN ACTIVE ELSE INACTIVE
    /\ ev.op \notin { "process_online", "process_offline" } => ev.relay_writes = 0

\* an OFFLINE tick that read 19.0 with the setpoint at 18.0 and switched the
\* relay off
C14_Witness ==
    /\ ev.op = "process_offline" /\ ev.relay_writes = 1
    /\ ev.poll.temp = Flt(190) /\ storage.setpoint = Flt(180)
    /\ pin_relay = INACTIVE

\* C15: a scan is started only by an OFFLINE tick on which the scan period has
\* elapsed and no scan is in flight, and such a tick does start one; so at most
\* one scan is in flight at any time.  The tick returns with the scan still in
\* flight: the result arrives through on_scan_complete.
C15_OneScanInFlight ==
    /\ scan_running <= 1
    /\ ev.scan_started =>
           /\ ev.op = "process_offline"
           /\ ev.scan_due /\ ev.scan_busy = 0
    /\ (ev.scan_due /\ ev.scan_busy = 0) => ev.scan_started
    /\ ev.op # "process_offline" => (~ev.scan_due /\ ~ev.scan_started)

\* an OFFLINE tick that started a scan and returned to loop() with it in flight
C15_Witness ==
    /\ ev.op = "process_offline" /\ ev.scan_started
    /\ scan_running = 1 /\ pc = "loop"

\* C16: after a scan completion, whatever number of networks the scan reports,
\* the stored count is at most MAX_NETWORKS, only entries of _found_networks at
\* indices below MAX_NETWORKS were written, and the count is that of this scan,
\* not of the one before.  Checked under SpecScan.
C16_NetworkListBounded ==
    (probe.k = "scan") =>
        /\ num_found_networks <= MAX_NETWORKS
        /\ probe.written \subseteq 0 .. MAX_NETWORKS - 1
        /\ num_found_networks = Cardinality(probe.written)

\* a scan that reported one network more than the list holds: entry 64 written
C16_Witness ==
    /\ probe.k = "scan" /\ probe.found = MAX_NETWORKS + 1
    /\ MAX_NETWORKS \in probe.written
    /\ num_found_networks = MAX_NETWORKS + 1

\* C17: no failure disables retrying: while loop() keeps being called with the
\* clock advancing, whenever the device is OFFLINE between two ticks with
\* credentials stored, a connect attempt follows, whatever connect failures,
\* transport failures or unrecognized response codes came before.  Checked
\* under SpecRun.
C17_RetryNeverDisabled ==
    (pc = "loop" /\ mode = "OFFLINE" /\ internet_settings_exist(storage)) ~> (pc = "sta")

\* back OFFLINE after a report that failed, with a later attempt under way
C17_Witness ==
    /\ pc = "sta" /\ caller = "retry"
    /\ ev.op = "process_offline" /\ ev.attempts = 1 /\ ev.after_attempt

\* C18: a poll that finds a request pending for the conversion period or longer
\* and the sensor answering incomplete returns no temperature, leaves no request
\* pending and issues none; the poll after it issues a new request, stamped with
\* its own clock reading; and after any poll a request that is still pending is
\* younger than the conversion period.
C18_MissedConversionDiscarded ==
    ev.poll.called =>
      /\ (ev.poll.was_started /\ ev.poll.elapsed /\ ~ev.poll.complete)
            => /\ ev.poll.asked /\ ~ev.poll.valid /\ ~ev.poll.requested
               /\ ~started_temp_req /\ last_started_temp_req = U32Zero
               /\ hist.missed
      /\ ev.poll.after_miss
            => /\ ev.poll.requested /\ ~ev.poll.asked /\ ~ev.poll.valid
               /\ started_temp_req /\ last_started_temp_req = ev.now
      /\ started_temp_req
            => ~period_elapsed(last_started_temp_req, ev.now, CONVERSION_PERIOD)

\* a poll found the conversion incomplete after the period, and the poll after
\* it has issued a new request
C18_Witness ==
    /\ ev.poll.called /\ ev.poll.after_miss /\ ev.poll.requested /\ started_temp_req

\* C19: while the mode stays the same, after a tick that obtained a temperature
\* at clock reading t no tick polls the sensor, reports or applies a control
\* decision before the clock gate reports PERIOD_CHECK_TEMP elapsed since t; one
\* tick makes at most one poll and at most one report, and it reports or
\* switches the relay only after its own poll.
C19_TemperatureDutyTimeGated ==
    /\ ev.polls <= 1 /\ ev.reports <= 1
    /\ ev.reports = 1 => (ev.polls = 1 /\ ev.poll.valid)
    /\ ev.relay_writes > 0 => (ev.polls = 1 /\ ev.poll.valid)
    /\ ~ev.poll_early

\* an OFFLINE tick polls the sensor less than PERIOD_CHECK_TEMP after a tick of
\* the same stay in OFFLINE obtained a temperature
C19_Witness ==
    /\ ev.op = "process_offline" /\ mode = "OFFLINE"
    /\ ev.polls = 1 /\ ev.poll_early /\ hist.attempted

\* C20: in every state reached after boot, mode ONLINE implies that the stored
\* ssid is not empty, whatever ticks, settings updates and factory resets came
\* before; and a connect attempt is under way only with a stored ssid.
C20_OnlineHasCredentials ==
    (mode = "ONLINE" \/ pc = "sta") => CStr(storage.ssid) # << >>

\* ONLINE with the credentials that a settings update stored
C20_Witness ==
    /\ mode = "ONLINE" /\ pc = "loop" /\ requests = 1
    /\ CStr(storage.ssid) = Str_ab /\ internet_settings_exist(storage)

\* C21: at every entry to loop() the access point and the configuration server
\* are running exactly when the mode is OFFLINE: each path to OFFLINE has started
\* both, each path to ONLINE has torn both down.
C21_ProvisioningIffOffline ==
    pc = "loop" => /\ ap_up <=> (mode = "OFFLINE")
                   /\ server_up <=> (mode = "OFFLINE")

\* at the entry to loop() in ONLINE, reached from an OFFLINE tick whose retry
\* connected: the access point and the server that were running are down
C21_Witness ==
    /\ pc = "loop" /\ mode = "ONLINE"
    /\ ev.op = "process_offline" /\ ev.sta_result = "success"
    /\ ~ap_up /\ ~server_up

\* C22: save writes every byte of the record at its own address in
\* EEPROM_OFFSET .. EEPROM_OFFSET + 136 (magic 4, version 1, ssid 32, passphrase
\* 64, report_url 32, setpoint 4) and leaves every byte of the EEPROM outside
\* that range as it was.  Checked under SpecStore.
C22_SaveWritesLayoutOnly ==
    (probe.k = "store" /\ probe.phase = "saved") =>
        /\ ADDR_END = EEPROM_OFFSET + 137
        /\ Len(record_image(probe.cfg)) = 137
        /\ \A a \in 0 .. EEPROM_SIZE - 1 :
              EepromRead(eeprom, a) =
                  IF a >= EEPROM_OFFSET /\ a < ADDR_END
                  THEN record_image(probe.cfg)[a - EEPROM_OFFSET + 1]
                  ELSE EepromRead(probe.before, a)

\* after a save to a zeroed EEPROM: the cell of the version still holds 0 and
\* the cell at address 1, outside the record, holds the address of the version
C22_Witness ==
    /\ probe.k = "store" /\ probe.phase = "saved"
    /\ probe.cfg.version = VERSION
    /\ EepromRead(probe.before, ADDR_VERSION) = 0 /\ EepromRead(eeprom, ADDR_VERSION) = 0
    /\ EepromRead(probe.before, VERSION) = 0 /\ EepromRead(eeprom, VERSION) = ADDR_VERSION

====
